---- MODULE Spec2Model ----
(***************************************************************************)
(* BellumBoard (src/bellumboard.py): the RPGSoundboard controller, its     *)
(* Library of folders and playlists, the MusicPlayer engine adapter, the   *)
(* worker threads and the auto-advance monitor, as one state machine.      *)
(*                                                                         *)
(* Conventions.  Python indices are kept 0-based (current_track_index,     *)
(* shuffle_queue entries, listbox rows); a TLA+ sequence s is read at      *)
(* s[i + 1].  Text (names, URLs) is a sequence of tokens so that strip(),  *)
(* split('?') and the substring tests are computed, not assumed.  The      *)
(* status bar, message boxes and print() calls change no modelled state    *)
(* and are left out.                                                       *)
(***************************************************************************)
EXTENDS Integers, Sequences, FiniteSets, Bags, TLC

VARIABLES
    folders,              \* self.folders: insertion-ordered dict, a sequence of [name, playlists]
    disk,                 \* soundboard_data.json: [present, whole, doc]
    current_playlist,     \* self.current_playlist: None or a reference <<folder pos, playlist pos>>
    current_track_index,  \* self.current_track_index
    shuffle_mode,         \* self.shuffle_mode
    shuffle_queue,        \* self.shuffle_queue
    auto_play,            \* self.auto_play
    search_results,       \* self.search_results
    tracks_rows,          \* number of rows shown in self.tracks_list
    tracks_sel,           \* self.tracks_list.curselection(): the tuple () or (row,)
    results_rows,         \* rows shown in self.results_list
    current_url,          \* MusicPlayer.current_url
    is_playing,           \* MusicPlayer.is_playing
    vlc_state,            \* vlc.MediaPlayer.get_state()
    player,               \* MusicPlayer.player is not None
    yt_dlp,               \* the module yt_dlp was imported (not None)
    volume,               \* MusicPlayer.volume
    backend_volume,       \* the last argument of audio_set_volume: () or (volume,)
    afterq,               \* callbacks handed to root.after(0, ...), in posting order
    url_workers,          \* running _add_url_thread threads
    import_workers,       \* running _import_spotify_thread threads
    play_workers,         \* running _play_track_thread threads
    search_workers,       \* running _search_thread threads
    monitor_pc,           \* position of monitor_playback: "poll" or "cooldown"
    op,                   \* history: the operation the last step executed, with its inputs
    thread,               \* history: the thread that executed the last step
    saved,                \* history: the last step called save_data
    unsaved,              \* history: track-sequence mutations since the last save_data call
    next_posts,           \* history: next_track hand-offs posted since the engine last ended
    last_query            \* history: the query of the search issued last, "" before the first

libVars    == <<folders, disk>>
playVars   == <<current_playlist, current_track_index, shuffle_mode, shuffle_queue, auto_play>>
uiVars     == <<search_results, tracks_rows, tracks_sel, results_rows>>
deviceVars == <<player, yt_dlp, volume, backend_volume>>
engineVars == <<current_url, is_playing, vlc_state, deviceVars>>
workerVars == <<url_workers, import_workers, play_workers, search_workers>>
histVars   == <<op, thread, saved, unsaved, next_posts, last_query>>
vars == <<libVars, playVars, uiVars, engineVars, afterq, workerVars, monitor_pc, histVars>>

\* None where a Playlist reference or a URL is expected, so that x = None is defined
None == <<>>

\* the state of the data file when it does not exist
NoFile == [present |-> FALSE, whole |-> FALSE, doc |-> <<>>]

\* the file holding the complete text of document doc
File(doc) == [present |-> TRUE, whole |-> TRUE, doc |-> doc]

\* the file cut off inside the text of a document: json.load cannot parse it
Partial == [present |-> TRUE, whole |-> FALSE, doc |-> <<>>]

(***************************************************************************)
(* Bounds of the model.                                                    *)
(***************************************************************************)
MaxTracks    == 3   \* tracks in one playlist
MaxFolders   == 2   \* folders in the library
MaxPlaylists == 2   \* playlists in one folder
MaxWorkers   == 1   \* live threads of one kind
MaxAfter     == 2   \* callbacks waiting in the root.after queue
MaxPairs     == 2   \* name+artist pairs of an imported playlist
MaxUnsaved   == 3   \* the history counter unsaved saturates here
MaxPosts     == 2   \* the history counter next_posts saturates here
MaxLive      == 1   \* live worker threads of all kinds while track lists are edited
MaxLibraryTracks == 2   \* tracks in the whole library while track lists are edited

(***************************************************************************)
(* Text.                                                                   *)
(***************************************************************************)
RECURSIVE LStrip(_)
LStrip(s) == IF s # <<>> /\ Head(s) = " " THEN LStrip(Tail(s)) ELSE s

RECURSIVE RStrip(_)
RStrip(s) == IF s # <<>> /\ s[Len(s)] = " " THEN RStrip(SubSeq(s, 1, Len(s) - 1)) ELSE s

\* str.strip()
Strip(s) == RStrip(LStrip(s))

Range(s) == {s[i] : i \in 1..Len(s)}

Max(a, b) == IF a >= b THEN a ELSE b
Min(a, b) == IF a < b THEN a ELSE b

(***************************************************************************)
(* Input domains: what the user types and what the backends answer.        *)
(***************************************************************************)
\* simpledialog.askstring answers for a folder name: Cancel returns None (ok = FALSE)
FolderInputs ==
    {[ok |-> FALSE, text |-> <<>>]} \cup
    {[ok |-> TRUE, text |-> t] : t \in {<<>>, <<" ">>, <<"A">>, <<" ", "A", " ">>, <<"B">>}}

\* contents of the playlist-name entry when Criar is pressed
PlaylistInputs == {<<>>, <<" ">>, <<"x">>, <<"x", " ">>, <<"y">>}

\* contents of the URL entry
UrlInputs ==
    { <<>>,
      <<" ">>,
      <<"https://youtube.com/watch", "?", "v=", "abc123", "?", "extra=1">>,
      <<" ", "https://youtu.be/abc123">>,
      <<"https://example.com/watch">>,
      <<"https://example.com/watch", "?", "ref=youtube.com">> }

\* the tokens in which the text "youtube.com" or "youtu.be" occurs
HasYoutube(tok) == tok \in {"https://youtube.com/watch", "https://www.youtube.com/watch", "ref=youtube.com"}
HasYoutuBe(tok) == tok \in {"https://youtu.be/abc123"}

\* video ids the video backend knows, and their titles
Vids == {<<"v1">>, <<"v2">>}
TitleOf(v) == IF v = <<"v1">> THEN "Song 1" ELSE "Song 2"

(***************************************************************************)
(* Track, Playlist and the folders dict.                                   *)
(***************************************************************************)
\* Track.__init__
Track(title, url, video_id, start_time) ==
    [title |-> title, url |-> url, video_id |-> video_id, start_time |-> start_time]

\* Playlist.__init__: tracks or []
Playlist(name, tracks) == [name |-> name, tracks |-> tracks]

\* Playlist.add_track
add_track(p, t) == [p EXCEPT !.tracks = Append(@, t)]

\* list.pop(index) on a valid 0-based index
Pop(s, index) == SubSeq(s, 1, index) \o SubSeq(s, index + 2, Len(s))

\* Playlist.remove_track
remove_track_at(p, index) ==
    IF 0 <= index /\ index < Len(p.tracks) THEN [p EXCEPT !.tracks = Pop(@, index)] ELSE p

\* Track.to_dict
Track_to_dict(t) ==
    [title |-> t.title, url |-> t.url, video_id |-> t.video_id, start_time |-> t.start_time]

\* Playlist.to_dict
Playlist_to_dict(p) ==
    [name |-> p.name, tracks |-> [i \in 1..Len(p.tracks) |-> Track_to_dict(p.tracks[i])]]

\* keys of the folders dict
FolderNames(fs) == {fs[i].name : i \in 1..Len(fs)}

\* position of a key of the folders dict
FolderPos(fs, name) == CHOOSE i \in 1..Len(fs) : fs[i].name = name

\* self.folders[name] = value: a new key goes last, a present key keeps its place
DictSet(fs, name, value) ==
    IF name \in FolderNames(fs)
    THEN [fs EXCEPT ![FolderPos(fs, name)].playlists = value]
    ELSE Append(fs, [name |-> name, playlists |-> value])

\* the Playlist object a reference <<folder pos, playlist pos>> denotes
PlaylistAt(fs, ref) == fs[ref[1]].playlists[ref[2]]

\* its track list
TracksAt(fs, ref) == PlaylistAt(fs, ref).tracks

\* every reference to a Playlist object of the library
Refs(fs) == UNION {{<<f, p>> : p \in 1..Len(fs[f].playlists)} : f \in 1..Len(fs)}

\* the library with the Playlist object at ref replaced by its mutated state
WithPlaylist(fs, ref, p) == [fs EXCEPT ![ref[1]].playlists[ref[2]] = p]

\* the dict comprehension of save_data: the document json.dump writes
Document(fs) ==
    [i \in 1..Len(fs) |->
        [name |-> fs[i].name,
         playlists |-> [j \in 1..Len(fs[i].playlists) |-> Playlist_to_dict(fs[i].playlists[j])]]]

(***************************************************************************)
(* Steps of the interaction thread.  A handler body constrains every       *)
(* variable but afterq, so that the same body serves a button press and a  *)
(* callback taken from the root.after queue.                               *)
(***************************************************************************)
\* the history of a step: what ran, on which thread
Ran(name, arg, who) ==
    /\ op' = [name |-> name, arg |-> arg]
    /\ thread' = who
    /\ last_query' = IF name = "search_music" /\ Strip(arg) # <<>> THEN Strip(arg)
                     ELSE last_query

\* a step that neither mutates the library nor calls save_data
NoSave == saved' = FALSE /\ UNCHANGED <<disk, unsaved>>

\* save_data after the handler left the library as fs
save_data(fs) ==
    disk' = File(Document(fs)) /\ saved' = TRUE /\ unsaved' = 0

\* a shuffle that draws every position independently, so that an index may repeat
Shuffles_repeating(n) == [1..n -> 0..(n - 1)]

\* how the try block of save_data can end: the document is written; open raises and
\* the file stays as it was; or open has truncated the file and json.dump or the
\* write raises inside the document
SaveOutcomes == {"written", "open raised", "write raised"}

\* save_data with that outcome, after the handler left the library as fs
save_data_outcome(fs, outcome) ==
    CASE outcome = "written"      -> save_data(fs)
      [] outcome = "open raised"  -> saved' = FALSE /\ UNCHANGED <<disk, unsaved>>
      [] outcome = "write raised" -> disk' = Partial /\ saved' = FALSE /\ UNCHANGED unsaved

\* the Salvar entry of the menu: save_data
save_menu(outcome) ==
    /\ Ran("save_data", outcome, "ui")
    /\ save_data_outcome(folders, outcome)
    /\ UNCHANGED <<folders, playVars, uiVars, engineVars, afterq, workerVars, monitor_pc,
                   next_posts>>

\* the orders random.shuffle can leave list(range(n)) in
Shuffles(n) == {q \in [1..n -> 0..(n - 1)] : \A i, j \in 1..n : q[i] = q[j] => i = j}

\* generate_shuffle_queue on a playlist of n tracks
generate_shuffle_queue(n) == shuffle_queue' \in Shuffles(n) /\ current_track_index' = 0

\* load_playlist(playlist) when the library is fs; sel is what a caller selects afterwards
load_playlist(fs, ref, sel) ==
    /\ current_playlist' = ref
    /\ tracks_rows' = Len(TracksAt(fs, ref))
    /\ tracks_sel' = sel
    /\ IF shuffle_mode
       THEN generate_shuffle_queue(Len(TracksAt(fs, ref)))
       ELSE UNCHANGED <<shuffle_queue, current_track_index>>

\* create_folder: the folders dict it leaves, and whether it created a folder
create_folder_result(fs, raw) ==
    IF ~raw.ok \/ raw.text = <<>>
    THEN [created |-> FALSE, folders |-> fs]
    ELSE LET name == Strip(raw.text) IN
         IF name = <<>>
         THEN [created |-> FALSE, folders |-> fs]
         ELSE IF name \notin FolderNames(fs)
              THEN [created |-> TRUE, folders |-> DictSet(fs, name, <<>>)]
              ELSE [created |-> FALSE, folders |-> fs]

create_folder(raw) ==
    LET r == create_folder_result(folders, raw) IN
    /\ r.created => Len(folders) < MaxFolders
    /\ Ran("create_folder", raw, "ui")
    /\ folders' = r.folders
    /\ IF r.created THEN save_data(r.folders) ELSE NoSave
    /\ UNCHANGED <<playVars, uiVars, engineVars, afterq, workerVars, monitor_pc, next_posts>>

\* a create() that does not look at the names the folder already holds
create_playlist_result_unchecked(fs, folder, raw) ==
    LET name == Strip(raw) IN
    IF fs = <<>> \/ name = <<>>
    THEN [created |-> FALSE, folders |-> fs]
    ELSE IF folder # <<>> /\ folder \in FolderNames(fs)
         THEN [created |-> TRUE,
               folders |-> [fs EXCEPT ![FolderPos(fs, folder)].playlists =
                                          Append(@, Playlist(name, <<>>))]]
         ELSE [created |-> FALSE, folders |-> fs]

\* create() of the Nova Playlist dialog, pressed once with the combobox at folder
create_playlist_result(fs, folder, raw) ==
    LET name == Strip(raw) IN
    IF fs = <<>> \/ name = <<>>
    THEN [created |-> FALSE, folders |-> fs]
    ELSE IF folder # <<>> /\ folder \in FolderNames(fs)
         THEN LET f == FolderPos(fs, folder)
                  existing_names == {fs[f].playlists[i].name : i \in 1..Len(fs[f].playlists)}
              IN  IF name \in existing_names
                  THEN [created |-> FALSE, folders |-> fs]
                  ELSE [created |-> TRUE,
                        folders |-> [fs EXCEPT ![f].playlists = Append(@, Playlist(name, <<>>))]]
         ELSE [created |-> FALSE, folders |-> fs]

create_playlist(folder, raw) ==
    LET r == create_playlist_result(folders, folder, raw) IN
    /\ r.created => Len(folders[FolderPos(folders, folder)].playlists) < MaxPlaylists
    /\ Ran("create_playlist", <<folder, raw>>, "ui")
    /\ folders' = r.folders
    /\ IF r.created THEN save_data(r.folders) ELSE NoSave
    /\ UNCHANGED <<playVars, uiVars, engineVars, afterq, workerVars, monitor_pc, next_posts>>

\* on_tree_double_click on the tree row of the playlist at ref
on_tree_double_click(ref) ==
    /\ Ran("load_playlist", ref, "ui")
    /\ load_playlist(folders, ref, <<>>)
    /\ NoSave
    /\ UNCHANGED <<folders, shuffle_mode, auto_play, search_results, results_rows,
                   engineVars, afterq, workerVars, monitor_pc, next_posts>>

\* A url worker carries, as history, the playlist that was current when add_from_url
\* started it (requested_on); the thread itself is handed the url only.
\* "youtube.com" in url or "youtu.be" in url
is_youtube_url(url) == \E i \in 1..Len(url) : HasYoutube(url[i]) \/ HasYoutuBe(url[i])

\* add_from_url: the url handed to a new _add_url_thread, or None when it returns early
add_from_url_result(playlist, raw) ==
    IF playlist = None THEN None
    ELSE LET url == Strip(raw) IN
         IF url = <<>> THEN None
         ELSE IF ~is_youtube_url(url) THEN None
         ELSE url

add_from_url(raw) ==
    LET url == add_from_url_result(current_playlist, raw) IN
    /\ Ran("add_from_url", raw, "ui")
    /\ IF url = None
       THEN UNCHANGED url_workers
       ELSE /\ BagCardinality(url_workers) < MaxWorkers
            /\ url_workers' = url_workers (+)
                   SetToBag({[pc |-> "fetch", url |-> url, requested_on |-> current_playlist]})
    /\ NoSave
    /\ UNCHANGED <<folders, playVars, uiVars, engineVars, afterq, import_workers,
                   play_workers, search_workers, monitor_pc, next_posts>>

\* every value tracks_list.curselection() can have with rows rows
Selections(rows) == {<<>>} \cup {<<i>> : i \in 0..(rows - 1)}

\* a click on a row of tracks_list, or the selection lost to another widget
select_track(sel) ==
    /\ sel # tracks_sel
    /\ Ran("select_track", sel, "ui")
    /\ tracks_sel' = sel
    /\ NoSave
    /\ UNCHANGED <<folders, playVars, search_results, tracks_rows, results_rows,
                   engineVars, afterq, workerVars, monitor_pc, next_posts>>

\* the index play_track leaves in current_track_index: the selected row when there is one
play_track_index(sel, index) == IF sel # <<>> THEN sel[1] ELSE index

\* play_track with the listbox selection sel and self.current_track_index = index:
\* constrains current_track_index and play_workers
play_track(sel, index) ==
    IF current_playlist = None \/ TracksAt(folders, current_playlist) = <<>>
    THEN current_track_index' = index /\ UNCHANGED play_workers
    ELSE /\ current_track_index' = play_track_index(sel, index)
         /\ BagCardinality(play_workers) < MaxWorkers
         /\ play_workers' = play_workers (+) SetToBag({[pc |-> "start"]})

\* the Tocar button and on_track_double_click
play_button ==
    /\ Ran("play_track", "button", "ui")
    /\ play_track(tracks_sel, current_track_index)
    /\ NoSave
    /\ UNCHANGED <<folders, current_playlist, shuffle_mode, shuffle_queue, auto_play, uiVars,
                   engineVars, afterq, url_workers, import_workers, search_workers,
                   monitor_pc, next_posts>>

\* selection_clear(0, END) then selection_set(i): a row past the end selects nothing
selection_set(rows, i) == IF 0 <= i /\ i < rows THEN <<i>> ELSE <<>>

\* a next_track that does not wrap at the end of the playlist
next_index_unwrapped(shuffle, queue, index, n) ==
    IF shuffle THEN (index + 1) % Len(queue) ELSE index + 1

\* the index next_track computes before it calls play_track
next_index(shuffle, queue, index, n) ==
    IF shuffle THEN (index + 1) % Len(queue) ELSE (index + 1) % n

\* the row next_track selects for the index it computed
next_actual_index(shuffle, queue, index) == IF shuffle THEN queue[index + 1] ELSE index

\* next_track: constrains every variable but afterq
next_track ==
    IF current_playlist = None \/ TracksAt(folders, current_playlist) = <<>>
    THEN /\ Ran("next_track", "returned", "ui")
         /\ NoSave
         /\ UNCHANGED <<folders, playVars, uiVars, engineVars, workerVars, monitor_pc, next_posts>>
    ELSE IF shuffle_mode /\ shuffle_queue = <<>>
    THEN \* (index + 1) % 0 raises ZeroDivisionError: Tk reports it and the handler ends
         /\ Ran("next_track", "ZeroDivisionError", "ui")
         /\ NoSave
         /\ UNCHANGED <<folders, playVars, uiVars, engineVars, workerVars, monitor_pc, next_posts>>
    ELSE LET n == Len(TracksAt(folders, current_playlist))
             index == next_index(shuffle_mode, shuffle_queue, current_track_index, n)
             actual_index == next_actual_index(shuffle_mode, shuffle_queue, index)
             sel == selection_set(tracks_rows, actual_index)
         IN  /\ Ran("next_track", "played", "ui")
             /\ tracks_sel' = sel
             /\ play_track(sel, index)
             /\ NoSave
             /\ UNCHANGED <<folders, current_playlist, shuffle_mode, shuffle_queue, auto_play,
                            search_results, tracks_rows, results_rows, engineVars,
                            url_workers, import_workers, search_workers, monitor_pc,
                            next_posts>>

\* the Proxima button
next_button == next_track /\ UNCHANGED afterq

\* toggle_shuffle: the checkbutton has flipped shuffle_var before the command runs
toggle_shuffle ==
    /\ Ran("toggle_shuffle", ~shuffle_mode, "ui")
    /\ shuffle_mode' = ~shuffle_mode
    /\ IF shuffle_mode' /\ current_playlist # None
       THEN generate_shuffle_queue(Len(TracksAt(folders, current_playlist)))
       ELSE UNCHANGED <<shuffle_queue, current_track_index>>
    /\ NoSave
    /\ UNCHANGED <<folders, current_playlist, auto_play, uiVars, engineVars, afterq,
                   workerVars, monitor_pc, next_posts>>

\* toggle_auto_play: likewise for auto_play_var
toggle_auto_play ==
    /\ Ran("toggle_auto_play", ~auto_play, "ui")
    /\ auto_play' = ~auto_play
    /\ NoSave
    /\ UNCHANGED <<folders, current_playlist, current_track_index, shuffle_mode, shuffle_queue,
                   uiVars, engineVars, afterq, workerVars, monitor_pc, next_posts>>

\* a pause that only ever pauses
MusicPlayer_pause_only ==
    /\ IF player
       THEN /\ vlc_state' = IF vlc_state = "Playing" THEN "Paused" ELSE vlc_state
            /\ is_playing' = FALSE
       ELSE UNCHANGED <<vlc_state, is_playing>>
    /\ UNCHANGED <<current_url, deviceVars>>

\* MusicPlayer.pause: libvlc toggles between Playing and Paused only
MusicPlayer_pause ==
    /\ IF player
       THEN /\ vlc_state' = CASE vlc_state = "Playing" -> "Paused"
                               [] vlc_state = "Paused"  -> "Playing"
                               [] OTHER                 -> vlc_state
            /\ is_playing' = ~is_playing
       ELSE UNCHANGED <<vlc_state, is_playing>>
    /\ UNCHANGED <<current_url, deviceVars>>

\* MusicPlayer.stop
MusicPlayer_stop ==
    /\ IF player
       THEN vlc_state' = "Stopped" /\ is_playing' = FALSE /\ current_url' = None
       ELSE UNCHANGED <<vlc_state, is_playing, current_url>>
    /\ UNCHANGED deviceVars

\* a set_volume that forwards its argument as given
MusicPlayer_set_volume_forwarding(v) ==
    /\ volume' = Max(0, Min(100, v))
    /\ backend_volume' = IF player THEN <<v>> ELSE backend_volume
    /\ UNCHANGED <<player, yt_dlp, current_url, is_playing, vlc_state>>

\* MusicPlayer.set_volume
MusicPlayer_set_volume(v) ==
    /\ volume' = Max(0, Min(100, v))
    /\ backend_volume' = IF player THEN <<volume'>> ELSE backend_volume
    /\ UNCHANGED <<player, yt_dlp, current_url, is_playing, vlc_state>>

\* pause_track -> MusicPlayer.pause
pause_track ==
    /\ Ran("pause_track", "button", "ui")
    /\ MusicPlayer_pause
    /\ NoSave
    /\ UNCHANGED <<folders, playVars, uiVars, afterq, workerVars, monitor_pc, next_posts>>

\* stop_track -> MusicPlayer.stop
stop_track ==
    /\ Ran("stop_track", "button", "ui")
    /\ MusicPlayer_stop
    /\ NoSave
    /\ UNCHANGED <<folders, playVars, uiVars, afterq, workerVars, monitor_pc, next_posts>>

\* positions of the volume scale, in tenths: the scale hands over the text of a float
\* between 0 and 100
ScalePositions == {0, 5, 427, 700, 999, 1000}

\* change_volume: int(float(value)) drops the fraction
change_volume(tenths) ==
    /\ Ran("change_volume", tenths, "ui")
    /\ MusicPlayer_set_volume(tenths \div 10)
    /\ NoSave
    /\ UNCHANGED <<folders, playVars, uiVars, afterq, workerVars, monitor_pc, next_posts>>

(***************************************************************************)
(* Track-sequence handlers of the interaction thread.                      *)
(***************************************************************************)
\* what a handler that mutates the current playlist then does:
\* load_playlist(self.current_playlist), a selection, save_data
reload_and_save(fs, sel) ==
    /\ folders' = fs
    /\ load_playlist(fs, current_playlist, sel)
    /\ save_data(fs)

\* a handler that returns early or raises before it changes anything
no_effect ==
    /\ NoSave
    /\ UNCHANGED <<folders, playVars, uiVars, engineVars, afterq, workerVars, monitor_pc,
                   next_posts>>

\* list.append on the track list of the playlist at ref
with_track(fs, ref, t) == WithPlaylist(fs, ref, add_track(PlaylistAt(fs, ref), t))

\* add_to_playlist with selection = results_list.curselection()
add_to_playlist(selection) ==
    /\ Ran("add_to_playlist", selection, "ui")
    /\ IF current_playlist = None \/ selection = <<>>
       THEN no_effect
       ELSE IF selection[1] >= Len(search_results)
       THEN \* self.search_results[idx] raises IndexError
            no_effect
       ELSE LET result == search_results[selection[1] + 1]
                track == Track(result.title, result.url, result.video_id, 0)
            IN  /\ Len(TracksAt(folders, current_playlist)) < MaxTracks
                /\ reload_and_save(with_track(folders, current_playlist, track), <<>>)
                /\ UNCHANGED <<shuffle_mode, auto_play, search_results, results_rows,
                               engineVars, afterq, workerVars, monitor_pc, next_posts>>

\* remove_track; yes is the answer to the askyesno box
remove_track(yes) ==
    /\ Ran("remove_track", <<tracks_sel, yes>>, "ui")
    /\ IF tracks_sel = <<>> \/ ~yes
       THEN no_effect
       ELSE LET p == PlaylistAt(folders, current_playlist) IN
         /\ reload_and_save(WithPlaylist(folders, current_playlist,
                                         remove_track_at(p, tracks_sel[1])), <<>>)
         /\ UNCHANGED <<shuffle_mode, auto_play, search_results, results_rows,
                        engineVars, afterq, workerVars, monitor_pc, next_posts>>

\* an exchange that assigns one side only: tracks[i] = tracks[j]
swap_one_side(tracks, i, j) == [tracks EXCEPT ![i + 1] = tracks[j + 1]]

\* the selection and the track order a move handler finds
found_order ==
    [selection |-> tracks_sel,
     tracks |-> IF current_playlist = None THEN <<>>
                ELSE TracksAt(folders, current_playlist)]

\* tracks[i], tracks[j] = tracks[j], tracks[i] on 0-based positions
swap(tracks, i, j) == [tracks EXCEPT ![i + 1] = tracks[j + 1], ![j + 1] = tracks[i + 1]]

\* move_track_up
move_track_up ==
    /\ Ran("move_track_up", found_order, "ui")
    /\ IF tracks_sel = <<>> \/ tracks_sel = <<0>>
       THEN no_effect
       ELSE LET p == PlaylistAt(folders, current_playlist)
             idx == tracks_sel[1]
         IN  /\ reload_and_save(WithPlaylist(folders, current_playlist,
                                    [p EXCEPT !.tracks = swap(@, idx, idx - 1)]), <<idx - 1>>)
             /\ UNCHANGED <<shuffle_mode, auto_play, search_results, results_rows,
                            engineVars, afterq, workerVars, monitor_pc, next_posts>>

\* move_track_down
move_track_down ==
    /\ Ran("move_track_down", found_order, "ui")
    /\ IF tracks_sel = <<>>
       THEN no_effect
       ELSE LET p == PlaylistAt(folders, current_playlist)
             idx == tracks_sel[1]
         IN  IF idx >= Len(p.tracks) - 1
             THEN no_effect
             ELSE /\ reload_and_save(WithPlaylist(folders, current_playlist,
                                         [p EXCEPT !.tracks = swap(@, idx, idx + 1)]), <<idx + 1>>)
                  /\ UNCHANGED <<shuffle_mode, auto_play, search_results, results_rows,
                                 engineVars, afterq, workerVars, monitor_pc, next_posts>>

\* values the user leaves in the start-time spinbox
StartTimes == {0, 5}

\* set_start_time and apply_time of its dialog, with time_val in the spinbox
set_start_time(time_val) ==
    /\ Ran("set_start_time", <<tracks_sel, time_val>>, "ui")
    /\ IF tracks_sel = <<>>
       THEN no_effect
       ELSE LET p == PlaylistAt(folders, current_playlist)
             idx == tracks_sel[1]
         IN  /\ reload_and_save(WithPlaylist(folders, current_playlist,
                                    [p EXCEPT !.tracks[idx + 1].start_time = time_val]), <<>>)
             /\ UNCHANGED <<shuffle_mode, auto_play, search_results, results_rows,
                            engineVars, afterq, workerVars, monitor_pc, next_posts>>

(***************************************************************************)
(* Worker threads.  A live thread is an element of its bag; a step takes   *)
(* one thread from one position to the next, or ends it.                   *)
(***************************************************************************)
Moved(bag, w, w2) == (bag (-) SetToBag({w})) (+) SetToBag({w2})
Ended(bag, w)     == bag (-) SetToBag({w})

\* root.after(0, ...) called for each of cbs, in order
post(cbs) == Len(afterq) + Len(cbs) <= MaxAfter /\ afterq' = afterq \o cbs

\* a library mutation counted against the next save_data
Unsaved == saved' = FALSE /\ disk' = disk /\ unsaved' = Min(unsaved + 1, MaxUnsaved)

\* url.split('?')[0]
split_query(url) ==
    IF "?" \in Range(url)
    THEN SubSeq(url, 1, (CHOOSE i \in 1..Len(url) :
                            url[i] = "?" /\ \A j \in 1..(i - 1) : url[j] # "?") - 1)
    ELSE url

\* _add_url_thread up to extract_info, which returns the info of video v, or (v = <<>>)
\* raises, which ends the thread in its except clause
url_fetch(w, v) ==
    /\ w.pc = "fetch"
    /\ Ran("_add_url_thread", "extract_info", "worker")
    /\ url_workers' =
          IF v = <<>>
          THEN Ended(url_workers, w)
          ELSE Moved(url_workers, w,
                   [pc |-> "add", track |-> Track(TitleOf(v), split_query(w.url), v, 0),
                    requested_on |-> w.requested_on])
    /\ NoSave
    /\ UNCHANGED <<folders, playVars, uiVars, engineVars, afterq, import_workers,
                   play_workers, search_workers, monitor_pc, next_posts>>

\* _add_url_thread: self.current_playlist.add_track(track)
url_add(w) ==
    /\ w.pc = "add"
    /\ Len(TracksAt(folders, current_playlist)) < MaxTracks
    /\ Ran("_add_url_thread", "add_track", "worker")
    /\ folders' = with_track(folders, current_playlist, w.track)
    /\ url_workers' = Moved(url_workers, w, [pc |-> "post"])
    /\ Unsaved
    /\ UNCHANGED <<playVars, uiVars, engineVars, afterq, import_workers,
                   play_workers, search_workers, monitor_pc, next_posts>>

\* _add_url_thread: the root.after calls that end it
url_post(w) ==
    /\ w.pc = "post"
    /\ Ran("_add_url_thread", "after", "worker")
    /\ post(<<[f |-> "load_playlist", arg |-> current_playlist],
              [f |-> "save_data", arg |-> None]>>)
    /\ url_workers' = Ended(url_workers, w)
    /\ NoSave
    /\ UNCHANGED <<folders, playVars, uiVars, engineVars, import_workers,
                   play_workers, search_workers, monitor_pc, next_posts>>

\* one entry of the list search_youtube returns
Result(v) ==
    [title |-> TitleOf(v), url |-> <<"https://www.youtube.com/watch", "?", "v=">> \o v,
     video_id |-> v, duration |-> IF v = <<"v1">> THEN 125 ELSE 0]

\* the lists search_youtube can return: the entries found, or [] when the backend raised
SearchAnswers == {<<>>, <<Result(<<"v1">>)>>, <<Result(<<"v2">>), Result(<<"v1">>)>>}

\* text in the search entry
Queries == {<<>>, <<"q">>}

\* search_music
search_music(raw) ==
    LET query == Strip(raw) IN
    /\ Ran("search_music", raw, "ui")
    /\ IF query = <<>>
       THEN UNCHANGED <<results_rows, search_workers>>
       ELSE /\ BagCardinality(search_workers) < MaxWorkers
            /\ results_rows' = <<>>
            /\ search_workers' = search_workers (+) SetToBag({[query |-> query]})
    /\ NoSave
    /\ UNCHANGED <<folders, playVars, search_results, tracks_rows, tracks_sel, engineVars,
                   afterq, url_workers, import_workers, play_workers, monitor_pc, next_posts>>

\* what the video backend does with a search: it raises, or returns the videos found
Answer(raised, entries) == [raised |-> raised, entries |-> entries]

\* a search_youtube that passes on every entry the backend returned
search_youtube_unsliced(answer) ==
    IF answer.raised THEN <<>>
    ELSE [i \in 1..Len(answer.entries) |-> Result(answer.entries[i])]

\* search_youtube: [] from its except clause, or one result for each of entries[:15]
search_youtube(answer) ==
    IF answer.raised THEN <<>>
    ELSE [i \in 1..Min(15, Len(answer.entries)) |-> Result(answer.entries[i])]

\* _search_thread, the backend answering the query with answer; search_youtube does not
\* raise, so the except clause of _search_thread is not entered
search_thread(w, answer) ==
    /\ Ran("_search_thread", answer, "worker")
    /\ post(<<[f |-> "_update_search_results", arg |-> search_youtube(answer)]>>)
    /\ search_workers' = Ended(search_workers, w)
    /\ NoSave
    /\ UNCHANGED <<folders, playVars, uiVars, engineVars, url_workers, import_workers,
                   play_workers, monitor_pc, next_posts>>

\* _update_search_results: constrains every variable but afterq
update_search_results(results) ==
    /\ Ran("_update_search_results", results, "ui")
    /\ search_results' = results
    /\ results_rows' = results_rows \o results
    /\ NoSave
    /\ UNCHANGED <<folders, playVars, tracks_rows, tracks_sel, engineVars, workerVars,
                   monitor_pc, next_posts>>

\* contents of the URL entry when Importar Playlist Spotify is pressed
ImportInputs ==
    { <<>>,
      <<"https://open.spotify.com/playlist/", "37i9", "?", "si=1">>,
      <<"https://example.com/watch">> }

\* url.split("playlist/")[1].split("?")[0]
spotify_playlist_id(url) ==
    LET k == CHOOSE i \in 1..Len(url) : url[i] = "https://open.spotify.com/playlist/"
    IN  split_query(SubSeq(url, k + 1, Len(url)))

\* import_spotify_playlist: an empty entry opens askstring, which the user cancels
import_spotify_playlist(raw) ==
    LET url == Strip(raw) IN
    /\ Ran("import_spotify_playlist", raw, "ui")
    /\ IF \/ current_playlist = None
          \/ url = <<>>
          \/ "https://open.spotify.com/playlist/" \notin Range(url)
       THEN UNCHANGED import_workers
       ELSE /\ BagCardinality(import_workers) < MaxWorkers
            /\ import_workers' = import_workers (+)
                   SetToBag({[pc |-> "fetch", playlist_id |-> spotify_playlist_id(url)]})
    /\ NoSave
    /\ UNCHANGED <<folders, playVars, uiVars, engineVars, afterq, url_workers,
                   play_workers, search_workers, monitor_pc, next_posts>>

\* the i-th name+artist pair of an external playlist
Pair(i) == [name |-> <<"N", i>>, artist |-> <<"A", i>>]

\* the lists get_spotify_tracks can return
PairLists == {[i \in 1..k |-> Pair(i)] : k \in 0..MaxPairs}

\* _import_spotify_thread up to the loop: no tracks ends it with an error box
import_fetch(w) ==
    /\ w.pc = "fetch"
    /\ Ran("_import_spotify_thread", [step |-> "get_spotify_tracks"], "worker")
    /\ \E tracks \in PairLists :
          import_workers' =
              IF tracks = <<>>
              THEN Ended(import_workers, w)
              ELSE Moved(import_workers, w,
                       [pc |-> "loop", tracks |-> tracks, i |-> 0, added |-> 0,
                        appended |-> <<>>])
    /\ NoSave
    /\ UNCHANGED <<folders, playVars, uiVars, engineVars, afterq, url_workers,
                   play_workers, search_workers, monitor_pc, next_posts>>

\* a choice of the last of the results
last_match(results) == results[Len(results)]

\* result = results[0]
top_match(results) == results[1]

\* one iteration of the loop of _import_spotify_thread, search_youtube returning
\* results; the worker carries, as history, the positions of the pairs it appended a
\* track for (appended)
import_loop(w, results) ==
    /\ w.pc = "loop"
    /\ w.i < Len(w.tracks)
    /\ Ran("_import_spotify_thread", [step |-> "track", results |-> results], "worker")
    /\    IF results # <<>>
          THEN LET track_info == w.tracks[w.i + 1]
                   result == top_match(results)
                   track == Track(<<track_info.name, " - ", track_info.artist>>,
                                  result.url, result.video_id, 0)
               IN  /\ Len(TracksAt(folders, current_playlist)) < MaxTracks
                   /\ folders' = with_track(folders, current_playlist, track)
                   /\ Unsaved
                   /\ import_workers' = Moved(import_workers, w,
                          [w EXCEPT !.i = @ + 1, !.added = @ + 1,
                                    !.appended = Append(@, w.i)])
          ELSE /\ UNCHANGED folders
               /\ NoSave
               /\ import_workers' = Moved(import_workers, w, [w EXCEPT !.i = @ + 1])
    /\ UNCHANGED <<playVars, uiVars, engineVars, afterq, url_workers,
                   play_workers, search_workers, monitor_pc, next_posts>>

\* _import_spotify_thread after the loop: the root.after calls that end it
import_post(w) ==
    /\ w.pc = "loop"
    /\ w.i = Len(w.tracks)
    /\ Ran("_import_spotify_thread",
           [step |-> "after", added |-> w.added, total |-> Len(w.tracks)], "worker")
    /\ post(<<[f |-> "load_playlist", arg |-> current_playlist],
              [f |-> "save_data", arg |-> None]>>)
    /\ import_workers' = Ended(import_workers, w)
    /\ NoSave
    /\ UNCHANGED <<folders, playVars, uiVars, engineVars, url_workers,
                   play_workers, search_workers, monitor_pc, next_posts>>

\* the index _play_track_thread reads its track at
actual_index_of(shuffle, queue, index) ==
    IF shuffle /\ queue # <<>> THEN queue[index + 1] ELSE index

\* _play_track_thread up to track = ...tracks[actual_index]; an index past the end of
\* shuffle_queue or of tracks raises IndexError, which ends the thread
play_start(w) ==
    /\ w.pc = "start"
    /\ LET tracks == TracksAt(folders, current_playlist) IN
       IF shuffle_mode /\ shuffle_queue # <<>> /\ current_track_index >= Len(shuffle_queue)
       THEN /\ Ran("_play_track_thread", [step |-> "IndexError"], "worker")
            /\ play_workers' = Ended(play_workers, w)
       ELSE LET actual_index ==
                    actual_index_of(shuffle_mode, shuffle_queue, current_track_index)
            IN  IF actual_index >= Len(tracks)
                THEN /\ Ran("_play_track_thread", [step |-> "IndexError"], "worker")
                     /\ play_workers' = Ended(play_workers, w)
                ELSE /\ Ran("_play_track_thread", [step |-> "read"], "worker")
                     /\ play_workers' = Moved(play_workers, w,
                            [pc |-> "resolve", track |-> tracks[actual_index + 1]])
    /\ NoSave
    /\ UNCHANGED <<folders, playVars, uiVars, engineVars, afterq, url_workers,
                   import_workers, search_workers, monitor_pc, next_posts>>

\* what get_youtube_stream_url returns for a video it resolves
stream_url(video_id) == <<"stream">> \o video_id

\* how the extraction of get_youtube_stream_url ends: info holds a url, info holds
\* none, or YoutubeDL raises
StreamOutcomes == {"url", "no url", "raised"}

\* get_youtube_stream_url: the watch page's address when yt_dlp is not installed,
\* info's url when the extraction gives one, the empty string otherwise
get_youtube_stream_url(installed, video_id, outcome) ==
    IF ~installed THEN <<"watch">> \o video_id
    ELSE IF outcome = "url" THEN stream_url(video_id)
    ELSE <<>>

\* a call of play that leaves start_time at its default
default_start_time(track) == 0

\* the start_time _play_track_thread passes to play
start_time_of(track) == track.start_time

\* _play_track_thread from get_youtube_stream_url into MusicPlayer.play: the empty
\* string ends the thread; otherwise play sets current_url and starts the media, or
\* the backend raises after current_url is set and play returns False. The step
\* records what get_youtube_stream_url returned and, when play is called, the
\* start_time it is called with
play_resolve(w) ==
    /\ w.pc = "resolve"
    /\ \E outcome \in StreamOutcomes :
          LET url == get_youtube_stream_url(yt_dlp, w.track.video_id, outcome) IN
          IF url = <<>>
          THEN /\ Ran("_play_track_thread", [step |-> "no stream", stream_url |-> url],
                      "worker")
               /\ play_workers' = Ended(play_workers, w)
               /\ UNCHANGED engineVars
          ELSE /\ current_url' = url
               /\ \/ /\ Ran("_play_track_thread",
                             [step |-> "play", stream_url |-> url,
                              start_time |-> start_time_of(w.track)], "worker")
                     /\ vlc_state' = "Playing"
                     /\ play_workers' = Moved(play_workers, w, [pc |-> "settle"])
                     /\ UNCHANGED is_playing
                  \/ /\ Ran("_play_track_thread",
                             [step |-> "play raised", stream_url |-> url,
                              start_time |-> start_time_of(w.track)], "worker")
                     /\ play_workers' = Ended(play_workers, w)
                     /\ UNCHANGED <<vlc_state, is_playing>>
    /\ NoSave
    /\ UNCHANGED <<folders, playVars, uiVars, deviceVars, afterq, url_workers,
                   import_workers, search_workers, monitor_pc, next_posts>>

\* MusicPlayer.play after time.sleep(0.5): set_time, is_playing = True, return True
play_settle(w) ==
    /\ w.pc = "settle"
    /\ Ran("_play_track_thread", [step |-> "settled"], "worker")
    /\ is_playing' = TRUE
    /\ play_workers' = Ended(play_workers, w)
    /\ NoSave
    /\ UNCHANGED <<folders, playVars, uiVars, current_url, vlc_state, deviceVars, afterq,
                   url_workers, import_workers, search_workers, monitor_pc, next_posts>>

(***************************************************************************)
(* The media engine and the monitor thread.                                *)
(***************************************************************************)
\* the media reaches its end: libvlc's state becomes Ended
engine_ends ==
    /\ vlc_state = "Playing"
    /\ Ran("engine", "Ended", "engine")
    /\ vlc_state' = "Ended"
    /\ next_posts' = 0
    /\ NoSave
    /\ UNCHANGED <<folders, playVars, uiVars, current_url, is_playing, deviceVars, afterq,
                   workerVars, monitor_pc>>

\* MusicPlayer.is_finished
is_finished == vlc_state = "Ended"

\* monitor_playback: a poll that finds auto_play on and the engine finished
monitor_poll ==
    /\ monitor_pc = "poll"
    /\ auto_play /\ is_finished
    /\ Ran("monitor_playback", "after", "monitor")
    /\ post(<<[f |-> "next_track", arg |-> None]>>)
    /\ monitor_pc' = "cooldown"
    /\ next_posts' = Min(next_posts + 1, MaxPosts)
    /\ NoSave
    /\ UNCHANGED <<folders, playVars, uiVars, engineVars, workerVars>>

\* monitor_playback: time.sleep(2) and time.sleep(1) have passed.  Three seconds are
\* long enough for the interaction loop to have run a callback posted with delay 0;
\* they are no bound on the network call of a play worker.
monitor_wake ==
    /\ monitor_pc = "cooldown"
    /\ \A i \in 1..Len(afterq) : afterq[i].f # "next_track"
    /\ Ran("monitor_playback", "sleep", "monitor")
    /\ monitor_pc' = "poll"
    /\ NoSave
    /\ UNCHANGED <<folders, playVars, uiVars, engineVars, afterq, workerVars, next_posts>>

(***************************************************************************)
(* The interaction loop runs the callbacks of root.after in posting order. *)
(***************************************************************************)
run_after ==
    /\ afterq # <<>>
    /\ afterq' = Tail(afterq)
    /\ LET cb == Head(afterq) IN
       CASE cb.f = "load_playlist" ->
                /\ Ran("load_playlist", cb.arg, "ui")
                /\ load_playlist(folders, cb.arg, <<>>)
                /\ NoSave
                /\ UNCHANGED <<folders, shuffle_mode, auto_play, search_results, results_rows,
                               engineVars, workerVars, monitor_pc, next_posts>>
         [] cb.f = "save_data" ->
                /\ Ran("save_data", "after", "ui")
                /\ save_data(folders)
                /\ UNCHANGED <<folders, playVars, uiVars, engineVars, workerVars, monitor_pc,
                               next_posts>>
         [] cb.f = "next_track" -> next_track
         [] cb.f = "_update_search_results" -> update_search_results(cb.arg)

(***************************************************************************)
(* get_spotify_tracks and its fallback, on the pages the two requests get. *)
(***************************************************************************)
\* ', '.join(names)
RECURSIVE Join(_)
Join(names) ==
    IF names = <<>> THEN <<>>
    ELSE IF Len(names) = 1 THEN names[1]
    ELSE names[1] \o <<", ">> \o Join(Tail(names))

\* the loop over items: an item without track, or whose track has no name, is left out
RECURSIVE tracks_from(_)
tracks_from(items) ==
    IF items = <<>> THEN <<>>
    ELSE LET item == Head(items)
             named == "track" \in DOMAIN item /\ item.track.name # <<>>
         IN  (IF named
              THEN <<[name |-> item.track.name, artist |-> Join(item.track.artists)]>>
              ELSE <<>>) \o tracks_from(Tail(items))

\* f"{track['name']}|{track['artist']}"
key(track) == track.name \o <<"|">> \o track.artist

\* the loop over tracks that keeps the first entry of every key
RECURSIVE unique(_, _)
unique(tracks, seen) ==
    IF tracks = <<>> THEN <<>>
    ELSE IF key(Head(tracks)) \in seen THEN unique(Tail(tracks), seen)
    ELSE <<Head(tracks)>> \o unique(Tail(tracks), seen \cup {key(Head(tracks))})

\* _get_spotify_tracks_embed: the pattern's matches in the embed page, without
\* duplicates, at most 50; [] when the request or the scan raises
get_spotify_tracks_embed(page) ==
    IF page.embed_raises THEN <<>>
    ELSE LET unique_tracks == unique(page.matches, {})
         IN  SubSeq(unique_tracks, 1, Min(50, Len(unique_tracks)))

\* get_spotify_tracks
get_spotify_tracks(page) ==
    IF page.status # 200 THEN <<>>
    ELSE CASE page.next_data = "absent"        -> get_spotify_tracks_embed(page)
           [] page.next_data = "unparseable"   -> <<>>
           [] page.next_data = "not navigable" -> <<>>
           [] page.next_data = "items"         -> tracks_from(page.items)

\* items of the embedded data: without track, with a track without name, with a named
\* track of two artists, with a named track without artists
SomeItems ==
    {[added_by |-> <<"u">>],
     [track |-> [name |-> <<>>, artists |-> <<>>]],
     [track |-> [name |-> <<"N", 1>>, artists |-> <<<<"A", 1>>, <<"B", 1>>>>]],
     [track |-> [name |-> <<"N", 2>>, artists |-> <<>>]]}

\* sequences over set S of length at most n
SeqsUpTo(S, n) == UNION {[1..k -> S] : k \in 0..n}

\* what the two requests of one fetch get: the playlist page with its status and its
\* embedded data block, and the matches of the pattern in the embed page
Pages ==
    [status : {200, 404},
     next_data : {"absent", "unparseable", "not navigable", "items"},
     items : SeqsUpTo(SomeItems, 1),
     matches : SeqsUpTo({Pair(1), Pair(2)}, 3),
     embed_raises : BOOLEAN]

\* a call of get_spotify_tracks; the step records the pages and the list returned
fetch_tracks(page) ==
    /\ Ran("get_spotify_tracks", [page |-> page, tracks |-> get_spotify_tracks(page)], "worker")
    /\ NoSave
    /\ UNCHANGED <<folders, playVars, uiVars, engineVars, afterq, workerVars, monitor_pc,
                   next_posts>>

(***************************************************************************)
(* format_duration.  A text is the sequence of its characters.             *)
(***************************************************************************)
\* the longest duration, in seconds, of the run of durations tried one by one
MaxSeconds == 130

\* the characters of the decimal digits, by value
Digits == <<"0", "1", "2", "3", "4", "5", "6", "7", "8", "9">>

\* str(n) for n >= 0
RECURSIVE Decimal(_)
Decimal(n) == IF n < 10 THEN <<Digits[n + 1]>> ELSE Decimal(n \div 10) \o <<Digits[(n % 10) + 1]>>

\* the field without its fill: f"{secs}"
two_digits_unfilled(n) == Decimal(n)

\* f"{secs:02d}" for secs >= 0
two_digits(n) == IF n < 10 THEN <<"0">> \o Decimal(n) ELSE Decimal(n)

\* the values format_duration is called with: None, or a number of seconds
Durations ==
    {[given |-> FALSE, value |-> 0]} \cup
    {[given |-> TRUE, value |-> n] : n \in (0..MaxSeconds) \cup {599, 600, 3599, 3600, 3725, 36000}}

\* format_duration
format_duration(seconds) ==
    IF ~seconds.given \/ seconds.value = 0
    THEN <<"?">>
    ELSE LET mins == seconds.value \div 60
             secs == seconds.value % 60
         IN  Decimal(mins) \o <<":">> \o two_digits(secs)

\* a call of format_duration; the step records the argument and the text returned
show_duration(seconds) ==
    /\ Ran("format_duration", [seconds |-> seconds, text |-> format_duration(seconds)], "ui")
    /\ NoSave
    /\ UNCHANGED <<folders, playVars, uiVars, engineVars, afterq, workerVars, monitor_pc,
                   next_posts>>

(***************************************************************************)
(* MusicPlayer called method by method, by one caller.                     *)
(***************************************************************************)
\* how the backend takes the calls of play: it accepts the media; media_new,
\* set_media or play raises; or set_time raises after the media has started
PlayOutcomes == {"accepted", "load raised", "seek raised"}

\* a play that reports success whenever the media has started
play_returns_started(available, outcome) == available /\ outcome # "load raised"

\* what MusicPlayer.play returns
play_returns(available, outcome) == available /\ outcome = "accepted"

\* MusicPlayer.play
play(url, start_time, outcome) ==
    /\ outcome = "seek raised" => start_time > 0
    /\ Ran("play", [url |-> url, start_time |-> start_time, outcome |-> outcome,
                    result |-> play_returns(player, outcome)], "caller")
    /\ IF ~player
       THEN UNCHANGED <<current_url, vlc_state, is_playing>>
       ELSE /\ current_url' = url
            /\ vlc_state' = IF outcome = "load raised" THEN vlc_state ELSE "Playing"
            /\ is_playing' = IF outcome = "accepted" THEN TRUE ELSE is_playing
    /\ NoSave
    /\ UNCHANGED <<folders, playVars, uiVars, deviceVars, afterq, workerVars, monitor_pc,
                   next_posts>>

\* MusicPlayer.pause; the step records what the call found
pause ==
    /\ Ran("pause", [is_playing |-> is_playing, state |-> vlc_state], "caller")
    /\ MusicPlayer_pause
    /\ NoSave
    /\ UNCHANGED <<folders, playVars, uiVars, afterq, workerVars, monitor_pc, next_posts>>

\* MusicPlayer.stop
stop ==
    /\ Ran("stop", <<>>, "caller")
    /\ MusicPlayer_stop
    /\ NoSave
    /\ UNCHANGED <<folders, playVars, uiVars, afterq, workerVars, monitor_pc, next_posts>>

\* arguments of set_volume
VolumeInputs == {-5, 0, 1, 50, 100, 101, 250}

\* MusicPlayer.set_volume
set_volume(v) ==
    /\ Ran("set_volume", v, "caller")
    /\ MusicPlayer_set_volume(v)
    /\ NoSave
    /\ UNCHANGED <<folders, playVars, uiVars, afterq, workerVars, monitor_pc, next_posts>>

(***************************************************************************)
(* Construction: RPGSoundboard.__init__ and load_data.                     *)
(***************************************************************************)
\* live worker threads of every kind
LiveWorkers ==
    BagCardinality(url_workers) + BagCardinality(import_workers) +
    BagCardinality(play_workers) + BagCardinality(search_workers)

\* a from_dict that does not read start_time
Track_from_dict_no_start(data) ==
    Track(data.title, data.url, IF "video_id" \in DOMAIN data THEN data.video_id ELSE <<>>, 0)

\* Track.from_dict
Track_from_dict(data) ==
    Track(data.title, data.url,
          IF "video_id" \in DOMAIN data THEN data.video_id ELSE <<>>,
          IF "start_time" \in DOMAIN data THEN data.start_time ELSE 0)

\* data['title'] or data['url'] raises KeyError
Track_from_dict_raises(data) == "title" \notin DOMAIN data \/ "url" \notin DOMAIN data

\* data.get('tracks', [])
tracks_of(data) == IF "tracks" \in DOMAIN data THEN data.tracks ELSE <<>>

\* Playlist.from_dict
Playlist_from_dict(data) ==
    Playlist(data.name, [i \in 1..Len(tracks_of(data)) |-> Track_from_dict(tracks_of(data)[i])])

\* Playlist.from_dict raises: in Track.from_dict, or KeyError at data['name']
Playlist_from_dict_raises(data) ==
    \/ \E i \in 1..Len(tracks_of(data)) : Track_from_dict_raises(tracks_of(data)[i])
    \/ "name" \notin DOMAIN data

\* the try block of load_data raises: in json.load or in the dict comprehension
load_data_raises(file) ==
    \/ ~file.whole
    \/ \E i \in 1..Len(file.doc) : \E j \in 1..Len(file.doc[i].playlists) :
          Playlist_from_dict_raises(file.doc[i].playlists[j])

\* a load_data that leaves out the playlists it cannot build and keeps the others
load_data_skipping(file) ==
    IF file.present /\ file.whole
    THEN [i \in 1..Len(file.doc) |->
             LET good == SelectSeq(file.doc[i].playlists,
                                   LAMBDA d : ~Playlist_from_dict_raises(d))
             IN  [name |-> file.doc[i].name,
                  playlists |-> [j \in 1..Len(good) |-> Playlist_from_dict(good[j])]]]
    ELSE <<>>

\* load_data: an absent file leaves self.folders = {}, and so does the except clause
load_data(file) ==
    IF file.present
    THEN IF load_data_raises(file)
         THEN <<>>
         ELSE [i \in 1..Len(file.doc) |->
                  [name |-> file.doc[i].name,
                   playlists |-> [j \in 1..Len(file.doc[i].playlists) |->
                                     Playlist_from_dict(file.doc[i].playlists[j])]]]
    ELSE <<>>

\* the i-th track of a document an earlier session saved
SavedTrack(i) ==
    LET v == IF i % 2 = 1 THEN <<"v1">> ELSE <<"v2">>
    IN  Track_to_dict(Track(TitleOf(v), Result(v).url, v, IF i = 2 THEN 5 ELSE 0))

\* documents an earlier session saved: folder A with playlist x of n tracks and
\* playlist y of m tracks
SavedDocument(n, m) ==
    <<[name |-> <<"A">>,
       playlists |-> <<[name |-> <<"x">>, tracks |-> [i \in 1..n |-> SavedTrack(i)]],
                       [name |-> <<"y">>, tracks |-> [i \in 1..m |-> SavedTrack(i + 1)]]>>]>>

SavedFiles == {File(SavedDocument(MaxTracks - m, m)) : m \in 0..1}

\* __init__ with the data file as found, and vlc and yt_dlp importable or not
InitModules(file, available, installed) ==
    /\ player = available
    /\ yt_dlp = installed
    /\ volume = 70
    /\ backend_volume = IF available THEN <<70>> ELSE <<>>
    /\ disk = file
    /\ folders = load_data(file)
    /\ current_playlist = None
    /\ current_track_index = 0
    /\ shuffle_mode = FALSE
    /\ shuffle_queue = <<>>
    /\ auto_play = FALSE
    /\ search_results = <<>>
    /\ tracks_rows = 0
    /\ tracks_sel = <<>>
    /\ results_rows = <<>>
    /\ current_url = None
    /\ is_playing = FALSE
    /\ vlc_state = "NothingSpecial"
    /\ afterq = <<>>
    /\ url_workers = EmptyBag
    /\ import_workers = EmptyBag
    /\ play_workers = EmptyBag
    /\ search_workers = EmptyBag
    /\ monitor_pc = "poll"
    /\ op = [name |-> "__init__", arg |-> <<>>]
    /\ thread = "ui"
    /\ saved = FALSE
    /\ unsaved = 0
    /\ next_posts = 0
    /\ last_query = <<>>

\* __init__ with the data file as found, vlc importable or not, yt_dlp imported
InitPlayer(file, available) == InitModules(file, available, TRUE)

\* __init__ with the data file as found: the program gets past MusicPlayer(...) and
\* create_ui only when vlc is there
InitWith(file) == InitPlayer(file, TRUE)

\* on_closing with that outcome of its save_data, and the next start of the program
restart(outcome) ==
    /\ LiveWorkers = 0 /\ afterq = <<>>
    /\ Ran("on_closing", outcome, "ui")
    /\ save_data_outcome(folders, outcome)
    /\ folders' = load_data(disk')
    /\ current_playlist' = None
    /\ current_track_index' = 0
    /\ shuffle_mode' = FALSE
    /\ shuffle_queue' = <<>>
    /\ auto_play' = FALSE
    /\ search_results' = <<>>
    /\ tracks_rows' = 0
    /\ tracks_sel' = <<>>
    /\ results_rows' = <<>>
    /\ current_url' = None
    /\ is_playing' = FALSE
    /\ vlc_state' = "NothingSpecial"
    /\ player' = player
    /\ yt_dlp' = yt_dlp
    /\ volume' = 70
    /\ backend_volume' = IF player THEN <<70>> ELSE <<>>
    /\ monitor_pc' = "poll"
    /\ next_posts' = 0
    /\ UNCHANGED <<afterq, workerVars>>

\* a track entry written by a version that stored neither video_id nor start_time
OldTrack == [title |-> "Song 1", url |-> Result(<<"v1">>).url]

\* documents other than those save_data writes: a playlist without tracks key and a
\* track without video_id and start_time, which load_data accepts; a track without
\* title after a complete one, and a playlist without name after a complete one,
\* which it does not
OldDocument ==
    <<[name |-> <<"A">>,
       playlists |-> <<[name |-> <<"x">>, tracks |-> <<SavedTrack(2), OldTrack>>],
                       [name |-> <<"y">>]>>]>>
NoTitleDocument ==
    <<[name |-> <<"A">>,
       playlists |-> <<[name |-> <<"x">>,
                        tracks |-> <<SavedTrack(1), [url |-> Result(<<"v2">>).url]>>]>>]>>
NoNameDocument ==
    <<[name |-> <<"A">>, playlists |-> <<[name |-> <<"x">>, tracks |-> <<SavedTrack(1)>>]>>],
      [name |-> <<"B">>, playlists |-> <<[tracks |-> <<>>]>>]>>

\* the data file as a start of the program can find it
FoundFiles ==
    {NoFile, Partial, File(<<>>), File(SavedDocument(2, 1)), File(OldDocument),
     File(NoTitleDocument), File(NoNameDocument)}

\* a first start: no data file
InitEmpty == InitWith(NoFile)

\* a start on whatever file is there
InitFound == \E file \in FoundFiles : InitWith(file)

\* a start on the data file of an earlier session
InitSaved == \E file \in SavedFiles : InitWith(file)

\* a start on one such file: playlist x of two tracks, playlist y empty
Init == InitWith(File(SavedDocument(2, 0)))

(***************************************************************************)
(* Specifications.                                                         *)
(***************************************************************************)
\* a URL the validation of add_from_url accepts
SomeUrl == <<" ", "https://youtu.be/abc123">>

\* track selection on a library that does not change: loading a playlist, the
\* selection, play, next and shuffle, and the play workers
Next ==
    \/ \E ref \in Refs(folders) : on_tree_double_click(ref)
    \/ \E sel \in Selections(tracks_rows) : select_track(sel)
    \/ play_button
    \/ next_button
    \/ toggle_shuffle
    \/ \E w \in BagToSet(play_workers) : play_start(w)
    \/ \E w \in BagToSet(play_workers) : play_resolve(w)
    \/ \E w \in BagToSet(play_workers) : play_settle(w)

Spec == InitSaved /\ [][Next]_vars

\* sequential track selection while a worker appends to the current playlist behind
\* the listbox, with at most MaxLive worker threads alive at a time
NextGrow ==
    \/ \E ref \in Refs(folders) : on_tree_double_click(ref)
    \/ LiveWorkers < MaxLive /\ play_button
    \/ LiveWorkers < MaxLive /\ next_button
    \/ \E w \in BagToSet(play_workers) : play_start(w)
    \/ \E w \in BagToSet(play_workers) : play_resolve(w)
    \/ \E w \in BagToSet(play_workers) : play_settle(w)
    \/ LiveWorkers < MaxLive /\ add_from_url(SomeUrl)
    \/ \E w \in BagToSet(url_workers) : url_fetch(w, <<"v1">>)
    \/ \E w \in BagToSet(url_workers) : url_add(w)
    \/ \E w \in BagToSet(url_workers) : url_post(w)
    \/ run_after

SpecGrow == Init /\ [][NextGrow]_vars

\* auto-advance: the engine, the monitor thread and what they drive
NextAuto ==
    \/ \E ref \in Refs(folders) : on_tree_double_click(ref)
    \/ play_button
    \/ toggle_auto_play
    \/ pause_track
    \/ stop_track
    \/ \E w \in BagToSet(play_workers) : play_start(w)
    \/ \E w \in BagToSet(play_workers) : play_resolve(w)
    \/ \E w \in BagToSet(play_workers) : play_settle(w)
    \/ engine_ends
    \/ monitor_poll
    \/ monitor_wake
    \/ run_after

SpecAuto == Init /\ [][NextAuto]_vars

\* the number of tracks in the library
TotalTracks(fs) ==
    LET RECURSIVE Sum(_)
        Sum(refs) == IF refs = {} THEN 0
                     ELSE LET r == CHOOSE x \in refs : TRUE
                          IN  Len(TracksAt(fs, r)) + Sum(refs \ {r})
    IN  Sum(Refs(fs))

\* the library has room for one more track
Room == TotalTracks(folders) < MaxLibraryTracks

\* nothing has been searched for yet
FirstSearch == search_results = <<>> /\ afterq = <<>>

\* every way a track list changes, on the interaction thread and on the workers, with
\* at most MaxLive worker threads alive at a time and MaxLibraryTracks tracks in all
NextTracks ==
    \/ \E ref \in Refs(folders) : on_tree_double_click(ref)
    \/ \E sel \in Selections(tracks_rows) : select_track(sel)
    \/ \E raw \in Queries : FirstSearch /\ LiveWorkers < MaxLive /\ search_music(raw)
    \/ \E w \in BagToSet(search_workers) : search_thread(w, Answer(FALSE, <<<<"v2">>>>))
    \/ \E selection \in Selections(Len(results_rows)) : Room /\ add_to_playlist(selection)
    \/ LiveWorkers < MaxLive /\ add_from_url(SomeUrl)
    \/ \E w \in BagToSet(url_workers) : url_fetch(w, <<"v1">>)
    \/ \E w \in BagToSet(url_workers) : Room /\ url_add(w)
    \/ \E w \in BagToSet(url_workers) : url_post(w)
    \/ \E raw \in ImportInputs : LiveWorkers < MaxLive /\ import_spotify_playlist(raw)
    \/ \E w \in BagToSet(import_workers) : import_fetch(w)
    \/ \E w \in BagToSet(import_workers), results \in {<<>>, <<Result(<<"v2">>)>>} :
          (results # <<>> => Room) /\ import_loop(w, results)
    \/ \E w \in BagToSet(import_workers) : import_post(w)
    \/ remove_track(TRUE)
    \/ move_track_up
    \/ move_track_down
    \/ set_start_time(5)
    \/ run_after

SpecTracks == InitWith(File(SavedDocument(0, 0))) /\ [][NextTracks]_vars

\* building the library from nothing and adding to it by URL, while the video backend
\* cannot be reached
NextLibrary ==
    \/ \E raw \in FolderInputs : create_folder(raw)
    \/ \E folder \in FolderNames(folders) \cup {<<>>}, raw \in PlaylistInputs :
          create_playlist(folder, raw)
    \/ \E ref \in Refs(folders) : on_tree_double_click(ref)
    \/ \E raw \in UrlInputs : add_from_url(raw)
    \/ \E w \in BagToSet(url_workers) : url_fetch(w, <<>>)

SpecLibrary == InitEmpty /\ [][NextLibrary]_vars

\* the data file: starts on every kind of file, edits of the library, saves that
\* succeed or fail, and closing and starting again
NextPersist ==
    \/ \E raw \in FolderInputs : create_folder(raw)
    \/ \E folder \in FolderNames(folders), raw \in {<<"x">>, <<"z">>} :
          create_playlist(folder, raw)
    \/ \E ref \in Refs(folders) : on_tree_double_click(ref)
    \/ \E sel \in Selections(tracks_rows) : select_track(sel)
    \/ \E time_val \in StartTimes : set_start_time(time_val)
    \/ remove_track(TRUE)
    \/ move_track_down
    \/ \E outcome \in SaveOutcomes : save_menu(outcome)
    \/ \E outcome \in SaveOutcomes : restart(outcome)

SpecPersist == InitFound /\ [][NextPersist]_vars

\* adding by URL: every content of the URL entry, the video backend answering with a
\* video or raising, and the worker's append and callbacks, with at most
\* MaxLibraryTracks tracks in all
NextUrl ==
    \/ \E ref \in Refs(folders) : on_tree_double_click(ref)
    \/ \E raw \in UrlInputs : add_from_url(raw)
    \/ \E w \in BagToSet(url_workers), v \in Vids \cup {<<>>} : url_fetch(w, v)
    \/ \E w \in BagToSet(url_workers) : Room /\ url_add(w)
    \/ \E w \in BagToSet(url_workers) : url_post(w)
    \/ run_after

SpecUrl == InitWith(File(SavedDocument(0, 0))) /\ [][NextUrl]_vars

\* reordering a playlist: loading, selecting a row, moving it up or down, and giving
\* it a start time
NextMove ==
    \/ \E ref \in Refs(folders) : on_tree_double_click(ref)
    \/ \E sel \in Selections(tracks_rows) : select_track(sel)
    \/ move_track_up
    \/ move_track_down
    \/ \E time_val \in StartTimes : set_start_time(time_val)

SpecMove == InitSaved /\ [][NextMove]_vars

\* a MusicPlayer built with or without vlc
InitEngine == \E available \in BOOLEAN : InitPlayer(NoFile, available)

\* the MusicPlayer under one caller: its methods in any order, the volume scale, and
\* the media reaching its end
NextEngine ==
    \/ \E v \in Vids, start_time \in StartTimes, outcome \in PlayOutcomes :
          play(stream_url(v), start_time, outcome)
    \/ pause
    \/ stop
    \/ \E v \in VolumeInputs : set_volume(v)
    \/ \E tenths \in ScalePositions : change_volume(tenths)
    \/ engine_ends

SpecEngine == InitEngine /\ [][NextEngine]_vars

\* format_duration on every duration of Durations
NextFormat == \E seconds \in Durations : show_duration(seconds)

SpecFormat == InitEmpty /\ [][NextFormat]_vars

\* contents of the search entry, for two different queries
SearchInputs == {<<>>, <<" ", "q">>, <<"r">>}

\* the videos the backend holds for a query: one for "q", sixteen for "r"
VideosFor(query) ==
    IF query = <<"q">> THEN <<<<"v1">>>>
    ELSE [i \in 1..16 |-> IF i % 2 = 1 THEN <<"v2">> ELSE <<"v1">>]

\* searching: searches issued while earlier ones are still on their way, the backend
\* answering or raising, the callbacks, and adding a result row to the loaded playlist
NextSearch ==
    \/ \E ref \in Refs(folders) : on_tree_double_click(ref)
    \/ \E raw \in SearchInputs : search_music(raw)
    \/ \E w \in BagToSet(search_workers), raised \in BOOLEAN :
          search_thread(w, Answer(raised, VideosFor(w.query)))
    \/ \E selection \in Selections(Len(results_rows)) : Room /\ add_to_playlist(selection)
    \/ run_after

SpecSearch == InitWith(File(SavedDocument(0, 0))) /\ [][NextSearch]_vars

\* the shuffle queue while the loaded playlist grows: shuffle switched on and off and
\* a URL worker appending
NextQueue ==
    \/ \E ref \in Refs(folders) : on_tree_double_click(ref)
    \/ toggle_shuffle
    \/ LiveWorkers < MaxLive /\ add_from_url(SomeUrl)
    \/ \E w \in BagToSet(url_workers) : url_fetch(w, <<"v1">>)
    \/ \E w \in BagToSet(url_workers) : url_add(w)
    \/ \E w \in BagToSet(url_workers) : url_post(w)
    \/ run_after

SpecQueue == Init /\ [][NextQueue]_vars

\* get_spotify_tracks on every page of Pages
NextFetch == \E page \in Pages : fetch_tracks(page)

SpecFetch == InitEmpty /\ [][NextFetch]_vars

\* what search_youtube returns for a pair of an import: nothing, one result, or two
ImportResults == {<<>>, <<Result(<<"v2">>)>>, <<Result(<<"v1">>), Result(<<"v2">>)>>}

\* importing, one import after another: every content of the URL entry,
\* get_spotify_tracks returning up to MaxPairs pairs, a search for each pair, and the
\* callbacks, with at most MaxLibraryTracks tracks in all
NextImport ==
    \/ \E ref \in Refs(folders) : on_tree_double_click(ref)
    \/ \E raw \in ImportInputs : import_workers = EmptyBag /\ import_spotify_playlist(raw)
    \/ \E w \in BagToSet(import_workers) : import_fetch(w)
    \/ \E w \in BagToSet(import_workers), results \in ImportResults :
          (results # <<>> => Room) /\ import_loop(w, results)
    \/ \E w \in BagToSet(import_workers) : import_post(w)
    \/ run_after

SpecImport == InitWith(File(SavedDocument(0, 0))) /\ [][NextImport]_vars

\* playing: a library of two tracks with start times 0 and 5, yt_dlp installed or
\* not, the play button on each selection, stop, and the play thread step by step
InitPlay == \E installed \in BOOLEAN : InitModules(File(SavedDocument(2, 0)), TRUE, installed)

NextPlay ==
    \/ \E ref \in Refs(folders) : on_tree_double_click(ref)
    \/ \E sel \in Selections(tracks_rows) : select_track(sel)
    \/ LiveWorkers < MaxLive /\ play_button
    \/ stop_track
    \/ \E w \in BagToSet(play_workers) : play_start(w)
    \/ \E w \in BagToSet(play_workers) : play_resolve(w)
    \/ \E w \in BagToSet(play_workers) : play_settle(w)

SpecPlay == InitPlay /\ [][NextPlay]_vars

(***************************************************************************)
(* Properties.                                                             *)
(***************************************************************************)
\* the tracks of the loaded playlist
CurrentTracks == TracksAt(folders, current_playlist)

\* a playlist with at least one track is loaded
Loaded == current_playlist # None /\ CurrentTracks # <<>>

\* q holds every index 0..n-1 exactly once
IsPermutation(q, n) ==
    /\ Len(q) = n
    /\ \A k \in 0..(n - 1) : Cardinality({i \in 1..n : q[i] = k}) = 1

\* the last step generated the shuffle queue
FreshQueue ==
    \/ op.name = "toggle_shuffle" /\ op.arg = TRUE
    \/ op.name = "load_playlist"

\* the cursor a next() from this state is to leave
Advanced == (current_track_index + 1) % Len(shuffle_queue)

\* C1: with shuffle on and the queue just generated over the tracks of the loaded
\* playlist, a next() leaves the play cursor one further modulo len(q), and the track
\* its play thread reads is tracks[q[cursor]] for that cursor
C1_shuffle_next_advances ==
    [][(/\ shuffle_mode /\ Loaded /\ FreshQueue
        /\ op'.name = "next_track" /\ op'.arg = "played")
       => /\ current_track_index' = Advanced
          /\ actual_index_of(shuffle_mode', shuffle_queue', current_track_index')
                = shuffle_queue[Advanced + 1]]_vars

\* C2: with auto_play on, the monitor hands next() to the interaction thread at most
\* once for one completion of a track
C2_one_next_per_completion == next_posts <= 1

\* C3: with shuffle off, next() on a playlist of n >= 1 tracks at index i leaves
\* current_track_index = (i + 1) mod n and starts a play thread that reads that track;
\* with no playlist or an empty one it changes nothing
C3_sequential_next ==
    [][(~shuffle_mode /\ op'.name = "next_track")
       => IF Loaded
          THEN /\ current_track_index' = (current_track_index + 1) % Len(CurrentTracks)
               /\ play_workers' = play_workers (+) SetToBag({[pc |-> "start"]})
               /\ actual_index_of(shuffle_mode', shuffle_queue', current_track_index')
                     = current_track_index'
               /\ UNCHANGED <<libVars, current_playlist, shuffle_mode>>
          ELSE UNCHANGED <<libVars, playVars, uiVars, engineVars, afterq, workerVars>>]_vars

\* C3: next() wrapped from the last track of a playlist that grew to three tracks
C3_witness ==
    /\ op.name = "next_track" /\ op.arg = "played"
    /\ ~shuffle_mode
    /\ Len(CurrentTracks) = 3
    /\ current_track_index = 0

\* C4: whenever toggle_shuffle turns shuffle on with a playlist loaded, shuffle_queue
\* holds every index of the playlist exactly once and the play cursor is 0
C4_shuffle_on_permutation ==
    [][(op'.name = "toggle_shuffle" /\ shuffle_mode' /\ current_playlist # None)
       => /\ IsPermutation(shuffle_queue', Len(CurrentTracks))
          /\ current_track_index' = 0]_vars

\* C4: shuffle was turned on over three tracks, in an order other than 0, 1, 2, with
\* the last row selected
C4_witness ==
    /\ op.name = "toggle_shuffle" /\ shuffle_mode
    /\ current_playlist # None
    /\ Len(shuffle_queue) = 3 /\ shuffle_queue # <<0, 1, 2>>
    /\ tracks_sel = <<2>>

\* C5: when toggle_shuffle turns shuffle off after a play thread read its track through
\* the shuffle queue, current_track_index becomes shuffle_queue[cursor]
C5_shuffle_off_real_index ==
    [][(/\ op.name = "_play_track_thread" /\ op.arg.step = "read"
        /\ shuffle_mode
        /\ op'.name = "toggle_shuffle")
       => current_track_index' = shuffle_queue[current_track_index + 1]]_vars

\* shuffle_queue matches the loaded playlist
QueueMatches ==
    IF current_playlist = None
    THEN shuffle_queue = <<>>
    ELSE IsPermutation(shuffle_queue, Len(CurrentTracks))

\* C6: after load_playlist of a playlist other than the loaded one, and after any
\* toggle_shuffle, current_track_index is 0 and shuffle_queue matches the loaded playlist
C6_position_reset ==
    [][(\/ op'.name = "load_playlist" /\ current_playlist' # current_playlist
        \/ op'.name = "toggle_shuffle")
       => (current_track_index = 0 /\ QueueMatches)']_vars

\* folder names are unique, and so are the playlist names of each folder
UniqueNames ==
    /\ \A i, j \in 1..Len(folders) : folders[i].name = folders[j].name => i = j
    /\ \A f \in 1..Len(folders) : \A i, j \in 1..Len(folders[f].playlists) :
          folders[f].playlists[i].name = folders[f].playlists[j].name => i = j

\* the playlist names of folder, before the step
NamesIn(folder) ==
    LET ps == folders[FolderPos(folders, folder)].playlists
    IN  {ps[i].name : i \in 1..Len(ps)}

\* the last playlist of folder, after the step
LastIn(folder) ==
    LET ps == folders'[FolderPos(folders', folder)].playlists IN ps[Len(ps)]

\* C7: folder names are unique and no folder holds two playlists of one name; a
\* create_playlist in an existing folder with a name (trimmed, not empty) that folder
\* does not hold leaves a playlist of that name, with no tracks, at the end of the
\* folder's list and every other playlist where it was
C7_unique_names ==
    [][/\ UniqueNames'
       /\ (/\ op'.name = "create_playlist"
           /\ op'.arg[1] \in FolderNames(folders)
           /\ Strip(op'.arg[2]) # <<>>
           /\ Strip(op'.arg[2]) \notin NamesIn(op'.arg[1]))
          => /\ LastIn(op'.arg[1]) = Playlist(Strip(op'.arg[2]), <<>>)
             /\ folders' = [folders EXCEPT ![FolderPos(folders, op'.arg[1])].playlists =
                                               Append(@, LastIn(op'.arg[1]))]]_vars

\* C7: a playlist x was just created in a second folder that, like the first, now
\* holds one
C7_witness ==
    /\ op.name = "create_playlist"
    /\ Len(folders) = 2
    /\ \A f \in 1..2 : \E i \in 1..Len(folders[f].playlists) :
          folders[f].playlists[i].name = <<"x">>
    /\ folders[2].playlists[Len(folders[2].playlists)].name = <<"x">>
    /\ saved

\* the tokens that open a URL whose host is the video platform
PlatformHosts ==
    {"https://youtube.com/watch", "https://www.youtube.com/watch", "https://youtu.be/abc123"}

\* the step is one of the calls the validation is to reject
Rejected ==
    \/ /\ op'.name = "create_folder"
       /\ op'.arg.ok
       /\ Strip(op'.arg.text) = <<>> \/ Strip(op'.arg.text) \in FolderNames(folders)
    \/ /\ op'.name = "create_playlist"
       /\ \/ op'.arg[1] \notin FolderNames(folders)
          \/ Strip(op'.arg[2]) = <<>>
          \/ Strip(op'.arg[2]) \in NamesIn(op'.arg[1])
    \/ /\ op'.name = "add_from_url"
       /\ \/ current_playlist = None
          \/ Strip(op'.arg) = <<>>
          \/ Head(Strip(op'.arg)) \notin PlatformHosts

\* C8: a create_folder with an empty or present name, a create_playlist with an unknown
\* folder, an empty name or a name the folder holds, and an add_from_url with no
\* playlist, an empty URL or a URL that is not of the video platform leave the library,
\* the file and the playback state as they were and start no worker
C8_rejection_changes_nothing ==
    [][Rejected => UNCHANGED <<libVars, playVars, engineVars, workerVars, afterq>>]_vars

\* C9: the file is never more than one mutation of a track list behind the library
C9_save_after_each_mutation == unsaved <= 1

\* what the specification calls playback state
PlaybackState ==
    <<current_url, is_playing, current_track_index, shuffle_mode, shuffle_queue, auto_play>>

\* C10: a step that changes the library or the playback state runs on the interaction
\* thread
C10_mutation_on_ui_thread ==
    [][<<folders, PlaybackState>>' # <<folders, PlaybackState>> => thread' = "ui"]_vars

\* every track of the library
AllTracks ==
    UNION {Range(TracksAt(folders, ref)) : ref \in Refs(folders)}

\* C11: the library that load_data builds from the document save_data wrote is the
\* library that was saved: the same folders, playlists and tracks in the same order,
\* every track with its title, url, video_id and start_time
C11_round_trip ==
    [][(op'.name = "on_closing" /\ op'.arg = "written") => folders' = folders]_vars

\* C11: a library of two folders with a track that starts at 5 s was saved on closing
\* and loaded again
C11_witness ==
    /\ op.name = "on_closing" /\ op.arg = "written"
    /\ Len(folders) = 2
    /\ \E t \in AllTracks : t.start_time = 5
    /\ \E ref \in Refs(folders) : Len(TracksAt(folders, ref)) >= 2

\* C16: a save_data that fails leaves the library as it was, and leaves in the data
\* file either the complete document that was there or the complete new one, never
\* a truncated or partial file
C16_failed_save_is_atomic ==
    [][(op'.name = "save_data" /\ op'.arg # "written")
          => /\ folders' = folders
             /\ disk' \in {disk, File(Document(folders))}]_vars

\* a playlist or track entry of the document lacks a key that from_dict indexes
Malformed(doc) ==
    \E i \in 1..Len(doc) : \E j \in 1..Len(doc[i].playlists) :
        LET entry == doc[i].playlists[j]
        IN  \/ ~("name" \in DOMAIN entry)
            \/ /\ "tracks" \in DOMAIN entry
               /\ \E k \in 1..Len(entry.tracks) :
                      ~({"title", "url"} \subseteq DOMAIN entry.tracks[k])

\* the library holds what the document holds, entry by entry, with video_id "" and
\* start_time 0 where the entry has none
HoldsDocument(fs, doc) ==
    /\ Len(fs) = Len(doc)
    /\ \A i \in 1..Len(doc) :
          /\ fs[i].name = doc[i].name
          /\ Len(fs[i].playlists) = Len(doc[i].playlists)
          /\ \A j \in 1..Len(doc[i].playlists) :
                LET entry  == doc[i].playlists[j]
                    p      == fs[i].playlists[j]
                    listed == IF "tracks" \in DOMAIN entry THEN entry.tracks ELSE <<>>
                IN  /\ p.name = entry.name
                    /\ Len(p.tracks) = Len(listed)
                    /\ \A k \in 1..Len(listed) :
                          /\ p.tracks[k].title = listed[k].title
                          /\ p.tracks[k].url = listed[k].url
                          /\ p.tracks[k].video_id =
                                IF "video_id" \in DOMAIN listed[k]
                                THEN listed[k].video_id ELSE <<>>
                          /\ p.tracks[k].start_time =
                                IF "start_time" \in DOMAIN listed[k]
                                THEN listed[k].start_time ELSE 0

\* the program has just started: for the first time, or again after a closing
Started == op.name \in {"__init__", "on_closing"}

\* C17: every start goes through load_data to a library: an empty one when the data
\* file is absent, an empty one when reading it fails or a playlist or track entry is
\* malformed, and otherwise the document's entries, a track without video_id or
\* start_time getting "" and 0
C17_load_never_fails ==
    Started =>
        IF ~disk.present \/ ~disk.whole THEN folders = <<>>
        ELSE IF Malformed(disk.doc) THEN folders = <<>>
        ELSE HoldsDocument(folders, disk.doc)

\* C17: the program started on a document whose second track has no title, after a
\* complete first track, and the library is empty
C17_witness ==
    /\ op.name = "__init__"
    /\ disk = File(NoTitleDocument)
    /\ folders = <<>>

\* the URL entry holds "https://youtube.com/watch?v=abc123?extra=1"
GivenUrl == <<"https://youtube.com/watch", "?", "v=", "abc123", "?", "extra=1">>

\* C12: the track that _add_url_thread builds for
\* "https://youtube.com/watch?v=abc123?extra=1" has the URL
\* "https://youtube.com/watch?v=abc123": the video identifier stays in it
C12_video_id_kept_in_url ==
    [][\A w \in BagToSet(url_workers) :
          (/\ w.pc = "fetch"
           /\ w.url = GivenUrl
           /\ op'.name = "_add_url_thread"
           /\ op'.arg = "extract_info")
          => \A w2 \in BagToSet(url_workers') :
                w2.pc = "add" =>
                    w2.track.url = <<"https://youtube.com/watch", "?", "v=", "abc123">>]_vars

\* how often track t occurs in the sequence
Count(tracks, t) == Cardinality({i \in 1..Len(tracks) : tracks[i] = t})

\* after is before with the tracks at the adjacent positions i and i + 1 exchanged
ExchangedAt(before, after, i) ==
    /\ after[i] = before[i + 1]
    /\ after[i + 1] = before[i]
    /\ \A k \in 1..Len(before) : k \notin {i, i + 1} => after[k] = before[k]

\* a step of move_track_up or move_track_down
MoveStep == op'.name \in {"move_track_up", "move_track_down"}

\* C13: a move keeps the length and the multiset of the playlist and changes nothing
\* or exchanges two adjacent tracks; down on the last row and up on the first change
\* nothing; and the first row moved down and then, still selected, up leaves the
\* order it had before the two moves
C13_moves ==
    [][/\ (MoveStep /\ current_playlist # None) =>
             LET before == CurrentTracks
                 after  == CurrentTracks'
             IN  /\ current_playlist' = current_playlist
                 /\ Len(after) = Len(before)
                 /\ \A t \in Range(before) \cup Range(after) :
                       Count(after, t) = Count(before, t)
                 /\ \/ after = before
                    \/ \E i \in 1..(Len(before) - 1) : ExchangedAt(before, after, i)
                 /\ \A ref \in Refs(folders) \ {current_playlist} :
                       TracksAt(folders', ref) = TracksAt(folders, ref)
       /\ (/\ op'.name = "move_track_down"
           /\ current_playlist # None
           /\ tracks_sel = <<Len(CurrentTracks) - 1>>)
             => folders' = folders
       /\ (op'.name = "move_track_up" /\ tracks_sel = <<0>>) => folders' = folders
       /\ (/\ op.name = "move_track_down"
           /\ op.arg.selection = <<0>>
           /\ Len(op.arg.tracks) >= 2
           /\ op'.name = "move_track_up")
             => /\ tracks_sel = <<1>>
                /\ CurrentTracks' = op.arg.tracks
                /\ tracks_sel' = <<0>>]_vars

\* C13: in a playlist of MaxTracks tracks the second row, which differs from the first,
\* was moved up, and the playlist is in the order it had in the data file at the
\* start, which a move had changed before
C13_witness ==
    /\ op.name = "move_track_up"
    /\ op.arg.selection = <<1>>
    /\ Len(CurrentTracks) = MaxTracks
    /\ CurrentTracks # op.arg.tracks
    /\ CurrentTracks = [i \in 1..MaxTracks |-> Track_from_dict(SavedTrack(i))]

\* C14: pause called on an engine that is playing leaves it paused, and pause called
\* twice in a row leaves is_playing, and the backend's state, as they were before the
\* two calls
C14_pause_toggles ==
    [][/\ (op'.name = "pause" /\ player /\ is_playing)
             => /\ ~is_playing'
                /\ vlc_state = "Playing" => vlc_state' = "Paused"
       /\ (op.name = "pause" /\ op'.name = "pause")
             => /\ is_playing' = op.arg.is_playing
                /\ vlc_state' = op.arg.state]_vars

\* C14: a pause found the engine paused and left it playing again
C14_witness ==
    /\ op.name = "pause"
    /\ op.arg.state = "Paused" /\ ~op.arg.is_playing
    /\ vlc_state = "Playing" /\ is_playing

\* C15: play returns a boolean in every case: False, with current_url and is_playing
\* untouched, when there is no backing engine; False when the backend raises; True,
\* with is_playing set, exactly when the backend accepted the media
C15_play_reports ==
    [][op'.name = "play" =>
          LET call == op'.arg IN
          /\ call.result \in BOOLEAN
          /\ ~player => /\ ~call.result
                        /\ current_url' = current_url
                        /\ is_playing' = is_playing
          /\ (player /\ call.outcome # "accepted") => ~call.result
          /\ (player /\ call.outcome = "accepted") => call.result
          /\ call.result => /\ is_playing'
                            /\ current_url' = call.url
                            /\ vlc_state' = "Playing"]_vars

\* C15: the backend raised after the media had started: play returned False and
\* is_playing is not set
C15_witness ==
    /\ op.name = "play"
    /\ op.arg.outcome = "seek raised"
    /\ ~op.arg.result
    /\ vlc_state = "Playing" /\ ~is_playing

\* v brought into the range 0..100
Clamped(v) == IF v < 0 THEN 0 ELSE IF v > 100 THEN 100 ELSE v

\* C18: the volume stays within 0..100 whatever set_volume is called with: below 0
\* gives 0, above 100 gives 100, anything else is kept, and the backend is handed
\* the stored value
C18_volume_clamped ==
    [][/\ volume' \in 0..100
       /\ player' => backend_volume' = <<volume'>>
       /\ op'.name = "set_volume" => volume' = Clamped(op'.arg)
       /\ op'.name = "change_volume" => volume' = Clamped(op'.arg \div 10)]_vars

\* C18: set_volume(250) stored 100 and handed 100 to the backend
C18_witness ==
    /\ op.name = "set_volume" /\ op.arg = 250
    /\ volume = 100
    /\ backend_volume = <<100>>

\* the number a text of decimal digits stands for
RECURSIVE Number(_)
Number(text) ==
    IF text = <<>> THEN 0
    ELSE 10 * Number(SubSeq(text, 1, Len(text) - 1)) +
         (CHOOSE d \in 0..9 : Digits[d + 1] = text[Len(text)])

\* text is m:ss for s seconds: the minutes without leading zero, a colon, and the
\* seconds of the minute in exactly two digits
MinutesSeconds(text, s) ==
    /\ Len(text) >= 4
    /\ \A i \in 1..Len(text) : text[i] = ":" <=> i = Len(text) - 2
    /\ \A i \in 1..Len(text) : i # Len(text) - 2 => text[i] \in Range(Digits)
    /\ Number(SubSeq(text, 1, Len(text) - 3)) = s \div 60
    /\ Number(SubSeq(text, Len(text) - 1, Len(text))) = s % 60
    /\ text[1] = "0" => Len(text) = 4

\* C19: format_duration gives "?" for 0 and for a missing value, and for every
\* positive number of seconds s the text m:ss with m = s div 60 and ss = s mod 60 in
\* two digits; for 125 it gives "2:05"
C19_format_duration ==
    op.name = "format_duration" =>
        LET seconds == op.arg.seconds
            text    == op.arg.text
        IN  /\ (~seconds.given \/ seconds.value = 0) => text = <<"?">>
            /\ (seconds.given /\ seconds.value > 0) => MinutesSeconds(text, seconds.value)
            /\ (seconds.given /\ seconds.value = 125) => text = <<"2", ":", "0", "5">>

\* C19: format_duration(125) returned "2:05"
C19_witness ==
    /\ op.name = "format_duration"
    /\ op.arg.seconds = [given |-> TRUE, value |-> 125]
    /\ op.arg.text = <<"2", ":", "0", "5">>

\* C20: whenever _play_track_thread reads the track to play, the index it uses is
\* within the current playlist's tracks (and within shuffle_queue when it goes through
\* it), and next_track never divides by the length of an empty shuffle_queue
C20_index_in_range ==
    /\ op.name = "_play_track_thread" => op.arg.step # "IndexError"
    /\ op.name = "next_track" => op.arg # "ZeroDivisionError"

\* C21: a play request that stop has superseded changes nothing in the engine when its
\* worker gets on: after stop_track the engine stays stopped, is_playing false and
\* current_url cleared, whatever a play worker that was already running does next
C21_superseded_play_is_dropped ==
    [][(op.name = "stop_track" /\ op'.name = "_play_track_thread")
          => /\ current_url' = None
             /\ is_playing' = FALSE
             /\ vlc_state' = "Stopped"]_vars

\* an _update_search_results callback is waiting in the root.after queue
UpdatePending == \E i \in 1..Len(afterq) : afterq[i].f = "_update_search_results"

\* every search issued has completed
SearchesDone == search_workers = EmptyBag /\ ~UpdatePending

\* what the search issued last returned: its results, or [] if the backend raised
LastResults == {<<>>, search_youtube(Answer(FALSE, VideosFor(last_query)))}

\* C22: once the searches issued have all completed, search_results and the rows
\* displayed are those of the search issued last, and of no earlier one
C22_stale_results_discarded ==
    (SearchesDone /\ last_query # <<>>)
        => /\ search_results \in LastResults
           /\ results_rows = search_results

\* C24: add_to_playlist on a selected row finds that row within search_results, and
\* the result it reads there is the one the row displays
C24_row_is_result ==
    [][(op'.name = "add_to_playlist" /\ op'.arg # <<>> /\ current_playlist # None)
          => /\ Len(results_rows) = Len(search_results)
             /\ op'.arg[1] < Len(search_results)
             /\ search_results[op'.arg[1] + 1] = results_rows[op'.arg[1] + 1]]_vars

\* C30: a search whose backend raised is completed on the interaction thread by the
\* error status and not by _update_search_results, whose status reports a search
\* that succeeded; and no search hands over more than 15 results
C30_failed_search_reported ==
    [][/\ (/\ op.name = "_search_thread"
           /\ op.arg.raised
           /\ Len(afterq) = 1
           /\ afterq' = <<>>)
             => op'.name # "_update_search_results"
       /\ op'.name = "_search_thread"
             => \A i \in 1..Len(afterq') :
                   afterq'[i].f = "_update_search_results" => Len(afterq'[i].arg) <= 15]_vars

\* C23: the track of an add by URL is appended to the playlist that was current when
\* add_from_url was called, whatever playlist has been loaded since, and the track
\* list of every other playlist stays as it is
C23_added_where_requested ==
    [][\A w \in BagToSet(url_workers) :
          (w.pc = "add" /\ op'.name = "_add_url_thread" /\ op'.arg = "add_track")
          => \A ref \in Refs(folders) :
                TracksAt(folders', ref) =
                    IF ref = w.requested_on
                    THEN Append(TracksAt(folders, ref), w.track)
                    ELSE TracksAt(folders, ref)]_vars

\* C25: while shuffle is on and a playlist is loaded, shuffle_queue is a permutation of
\* the positions of the playlist's tracks, also after a track was added or removed
C25_queue_is_permutation ==
    (shuffle_mode /\ current_playlist # None)
        => IsPermutation(shuffle_queue, Len(CurrentTracks))

\* C26: is_playing is true only while a media is loaded, that is while current_url is
\* set: the engine never reports playing when idle or stopped
C26_playing_only_with_media ==
    is_playing => current_url # None

\* the primary extraction yields no tracks: the data block is absent, or present but
\* not navigable, or it holds no named track
PrimaryEmpty(page) ==
    /\ page.status = 200
    /\ \/ page.next_data \in {"absent", "not navigable"}
       \/ page.next_data = "items" /\ tracks_from(page.items) = <<>>

\* C27: whenever the primary extraction yields no tracks, get_spotify_tracks returns
\* what the fallback scrape returns, and that list holds no name and artist pair twice
C27_fallback_when_primary_empty ==
    op.name = "get_spotify_tracks" =>
        LET page   == op.arg.page
            tracks == op.arg.tracks
        IN  PrimaryEmpty(page) =>
                /\ tracks = get_spotify_tracks_embed(page)
                /\ \A i, j \in 1..Len(tracks) : tracks[i] = tracks[j] => i = j

\* the track an import builds for a pair and the first result of its search
Imported(pair, result) ==
    Track(<<pair.name, " - ", pair.artist>>, result.url, result.video_id, 0)

\* C28: the import takes the pairs in their order; a pair whose search returns results
\* gets the first of them appended to the playlist, a pair whose search returns
\* nothing changes nothing, and either way the import goes on to the next pair; the
\* count reported at the end is the number of tracks appended, at most the number of
\* pairs, and the appends were made in the order of the pairs
C28_import_partial_success ==
    [][(op'.name = "_import_spotify_thread" /\ op'.arg.step # "get_spotify_tracks") =>
          \E w \in BagToSet(import_workers) :
             /\ w.pc = "loop"
             /\ IF op'.arg.step = "track"
                THEN LET results == op'.arg.results
                         pair    == w.tracks[w.i + 1]
                         matched == IF results = <<>> THEN 0 ELSE 1
                     IN  /\ w.i < Len(w.tracks)
                         /\ \E appended \in {w.appended, Append(w.appended, w.i)} :
                               import_workers' =
                                  Moved(import_workers, w,
                                        [w EXCEPT !.i = @ + 1, !.added = @ + matched,
                                                  !.appended = appended])
                         /\ results = <<>> => folders' = folders
                         /\ results # <<>> =>
                               CurrentTracks' =
                                  Append(CurrentTracks, Imported(pair, results[1]))
                ELSE /\ w.i = Len(w.tracks)
                     /\ op'.arg.added = Len(w.appended)
                     /\ op'.arg.added <= op'.arg.total
                     /\ op'.arg.total = Len(w.tracks)
                     /\ \A a, b \in 1..Len(w.appended) :
                           a < b => w.appended[a] < w.appended[b]
                     /\ import_workers' = Ended(import_workers, w)]_vars

\* C28: an import of two pairs ended and reported one match of two: the first pair's
\* search returned nothing, the second pair's track was appended
C28_witness ==
    /\ op.name = "_import_spotify_thread"
    /\ op.arg.step = "after"
    /\ op.arg.added = 1 /\ op.arg.total = 2
    /\ \E ref \in Refs(folders) :
          \E k \in 1..Len(TracksAt(folders, ref)) :
             TracksAt(folders, ref)[k].title = <<Pair(2).name, " - ", Pair(2).artist>>

FairAuto ==
    /\ WF_vars(monitor_poll)
    /\ WF_vars(monitor_wake)
    /\ SF_vars(run_after)
    /\ WF_vars(\E w \in BagToSet(play_workers) : play_start(w))
    /\ WF_vars(\E w \in BagToSet(play_workers) : play_resolve(w))
    /\ WF_vars(\E w \in BagToSet(play_workers) : play_settle(w))

\* auto-advance under that scheduling
SpecAutoFair == SpecAuto /\ FairAuto

\* the interaction loop runs the next_track callback the monitor posted
MonitorNext ==
    /\ afterq # <<>>
    /\ Head(afterq).f = "next_track"
    /\ afterq' = Tail(afterq)
    /\ op'.name = "next_track"

\* the last step was next_track, run for the monitor
NextRan == op.name = "next_track" /\ thread = "ui"

\* C31 (liveness): from a state with auto_play on and the engine ended, either
\* auto_play is turned off or the engine leaves Ended, or the interaction loop gets to
\* run next_track
C31_ended_leads_to_next ==
    (auto_play /\ is_finished) ~> (NextRan \/ ~auto_play \/ ~is_finished)

\* C31 (gating): the next_track the monitor posted runs only while auto_play is on
C31_no_next_while_disabled == [][MonitorNext => auto_play]_vars

\* C31: the monitor's next_track has run with auto_play on and the engine ended
C31_witness == NextRan /\ auto_play /\ is_finished

====
